---- MODULE Spec2Model ----
(***************************************************************************)
(* Model of dashboard.py, the CCI Index analytics dashboard.               *)
(*                                                                         *)
(* The script is a Streamlit page: every widget change re-runs the whole   *)
(* file top to bottom in the same Python process.  Floats are modelled as  *)
(* fixed-point integers (Scale units per 1.0); a float that may be NaN or   *)
(* infinite is a record [kind, v]; month-end timestamps are month numbers  *)
(* (12 * year + month - 1).                                                *)
(***************************************************************************)
EXTENDS Integers, Sequences, FiniteSets, TLC

VARIABLES
    rng,          \* state of numpy's global generator (np.random)
    time_period,  \* value of the "Time Period" selectbox
    show_ma,      \* value of the "Moving Averages" multiselect
    data,         \* module-level `data` of the last script run
    view,         \* everything the last script run computed and published
    pc,           \* "session" | "input" | "frame" | "composed" | "projected"
    raw,          \* input series (values) of the function-level specification
    months        \* horizon handed to generate_projection

vars == <<rng, time_period, show_ma, data, view, pc, raw, months>>

----------------------------------------------------------------------------
(* Bounds of the model *)

MaxSeed == 3      \* the generator starts in one of the states 0..MaxSeed
MaxLen == 4       \* longest enumerated input series of FnSpec
MaxMonths == 4    \* longest enumerated horizon of FnSpec

----------------------------------------------------------------------------
(* Numbers *)

Scale == 100

RngModulus == 64

Periods == 120

LastMonth == 12 * 2024 + 11

DefaultMonths == 12

Min(a, b) == IF a < b THEN a ELSE b

Max(a, b) == IF a < b THEN b ELSE a

\* scaled sine of the angle 2*pi*n/d, 0 <= n <= d: np.sin, computed with
\* Bhaskara's rational approximation on each half turn
HalfSin(a, b) == (Scale * 16 * a * (b - a)) \div (5 * b * b - 4 * a * (b - a))

SinTurn(n, d) ==
    IF 2 * n <= d THEN HalfSin(2 * n, d) ELSE 0 - HalfSin(2 * n - d, d)

\* integer square root by bisection: lo * lo <= v < hi * hi throughout
RECURSIVE SqrtBetween(_, _, _)
SqrtBetween(v, lo, hi) ==
    IF hi - lo <= 1 THEN lo
    ELSE LET mid == (lo + hi) \div 2
         IN  IF mid * mid <= v THEN SqrtBetween(v, mid, hi)
                               ELSE SqrtBetween(v, lo, mid)

Sqrt(v) == SqrtBetween(v, 0, 46340)

\* float64 values: a finite number, NaN, or a signed infinity
Num(v) == [kind |-> "finite", v |-> v]

NaN == [kind |-> "nan", v |-> 0]

Inf(sign) == [kind |-> "inf", v |-> sign]

\* numpy float64 true division a / b * 100: dividing by 0.0 raises nothing,
\* it yields nan for 0/0 and a signed infinity otherwise
PercentOf(a, b) ==
    IF b = 0
    THEN IF a = 0 THEN NaN ELSE Inf(IF a > 0 THEN 1 ELSE 0 - 1)
    ELSE Num((a * 100 * Scale) \div b)

RECURSIVE SumSeq(_)
SumSeq(s) == IF s = <<>> THEN 0 ELSE Head(s) + SumSeq(Tail(s))

----------------------------------------------------------------------------
(* pandas / numpy primitives used by the script *)

\* Python slice s[start:] with a possibly negative start
SliceFrom(s, start) ==
    LET n == Len(s)
        b == IF start < 0 THEN Max(n + start, 0) ELSE Min(start, n)
    IN  SubSeq(s, b + 1, n)

\* Series.tail(n) for n >= 0: iloc[0:0] when n = 0, else iloc[-n:]
tail_col(s, n) == IF n = 0 THEN <<>> ELSE SliceFrom(s, 0 - n)

Columns == {"Date", "CCI Index", "4-Month MA", "1-Year MA"}

\* DataFrame.tail(n): the same trailing rows of every column
tail(df, n) == [c \in DOMAIN df |-> tail_col(df[c], n)]

\* len(df)
len(df) == Len(df["Date"])

\* pd.date_range(start=start, periods=periods, freq='M'), start a month end
date_range_start(start, periods) == [k \in 1..periods |-> start + k - 1]

\* pd.date_range(end=end, periods=periods, freq='M'), end the last month end
date_range_end(end, periods) == [k \in 1..periods |-> end - periods + k]

\* np.linspace(0, 1, num)[i] as the fraction <<numerator, denominator>>
linspace01(num, i) == IF num = 1 THEN <<0, 1>> ELSE <<i, num - 1>>

\* a sliding window that never removes the leaving value
roll_step_no_removal(x, window, st, i) ==
    LET nobs == st.nobs + 1 - (IF i > window THEN 1 ELSE 0)
        sum_x == st.sum_x + x[i]
    IN  [nobs |-> nobs, sum_x |-> sum_x,
         out |-> Append(st.out,
                        IF nobs >= window THEN Num(sum_x \div nobs) ELSE NaN)]

\* one step of the sliding window of Series.rolling(window).mean() at x[i]:
\* add the entering value, remove the leaving one, emit sum / nobs once
\* min_periods (= window) observations are held and NaN before
roll_step(x, window, st, i) ==
    LET leaving == IF i > window THEN x[i - window] ELSE 0
        nobs == st.nobs + 1 - (IF i > window THEN 1 ELSE 0)
        sum_x == st.sum_x + x[i] - leaving
    IN  [nobs |-> nobs, sum_x |-> sum_x,
         out |-> Append(st.out,
                        IF nobs >= window THEN Num(sum_x \div nobs) ELSE NaN)]

\* the steps lo..hi in order, from the state st (the range is halved, and the
\* left half evaluated before the right one is entered, to keep TLC's
\* evaluation shallow)
RECURSIVE roll_mean(_, _, _, _, _)
roll_mean(x, window, st, lo, hi) ==
    IF lo > hi THEN st
    ELSE IF lo = hi THEN roll_step(x, window, st, lo)
    ELSE LET mid == (lo + hi) \div 2
             left == roll_mean(x, window, st, lo, mid)
         IN  IF left.nobs >= 0 THEN roll_mean(x, window, left, mid + 1, hi)
                               ELSE left

\* rolling(window, min_periods=1).mean(): a value from the first point on
rolling_mean_min_periods_1(x, window) ==
    [i \in 1..Len(x) |->
        LET lo == Max(1, i - window + 1)
        IN  Num(SumSeq(SubSeq(x, lo, i)) \div (i - lo + 1))]

\* Series.rolling(window).mean()
rolling_mean(x, window) ==
    roll_mean(x, window, [nobs |-> 0, sum_x |-> 0, out |-> <<>>], 1, Len(x)).out

\* Series.rolling(window).std().iloc[-1]: sample deviation (ddof = 1) of the
\* last window, NaN with fewer than window observations; indexing an empty
\* result raises IndexError, which the caller checks before
rolling_std_last(x, window) ==
    IF Len(x) < window THEN NaN
    ELSE LET w == SliceFrom(x, 0 - window)
             m == SumSeq(w) \div window
             sq == [i \in 1..window |-> (w[i] - m) * (w[i] - m)]
         IN  Num(Sqrt(SumSeq(sq) \div (window - 1)))

----------------------------------------------------------------------------
(* The script's own functions *)

\* np.random: the global generator is a position in a pseudo-random stream;
\* a draw yields the sample at the position and moves one on
normal_sample(s) == (((7 * s * s + 3 * s) % 21) - 10) * (Scale \div 2)

\* the generator after n draws
rng_after(s, n) == (s + n) % RngModulus

\* np.random.normal(0, 5, n): n successive samples from state s
random_normal(s, n) == [i \in 1..n |-> normal_sample(rng_after(s, i - 1))]

\* base_trend[i] = 50 + 25 * sin(t[i] * 2 * pi / 12), t = linspace(0, 10, n)
base_trend(n) ==
    [i \in 1..n |->
        50 * Scale + (25 * SinTurn(10 * (i - 1), 12 * Max(n - 1, 1))) ]

\* the DataFrame built from dates and values, with both moving averages
\* computed over the whole series
make_frame(dates, cci_values) ==
    [c \in Columns |->
        CASE c = "Date" -> dates
          [] c = "CCI Index" -> cci_values
          [] c = "4-Month MA" -> rolling_mean(cci_values, 4)
          [] c = "1-Year MA" -> rolling_mean(cci_values, 12)]

generate_sample_data(s) ==
    LET dates == date_range_end(LastMonth, Periods)
        noise == random_normal(s, Len(dates))
        trend == base_trend(Len(dates))
    IN  make_frame(dates, [i \in 1..Len(dates) |-> trend[i] + noise[i]])

\* period_months with "Max" one row short
period_months_max_short(df) ==
    ("6 Months" :> 6) @@ ("1 Year" :> 12) @@ ("3 Years" :> 36)
        @@ ("10 Years" :> 120) @@ ("Max" :> Max(len(df) - 1, 0))

\* period_months, built after data
period_months(df) ==
    ("6 Months" :> 6) @@ ("1 Year" :> 12) @@ ("3 Years" :> 36)
        @@ ("10 Years" :> 120) @@ ("Max" :> len(df))

ProjectionColumns == {"Date", "Projected", "Upper", "Lower"}

EmptyProjection == [c \in ProjectionColumns |-> <<>>]

\* projected[i] = last_value + 10 * sin(t[i] * 2 * pi) + 5 * t[i]
projected_at(last_value, m, i) ==
    LET t == linspace01(m, i)
    IN  last_value + 10 * SinTurn(t[1], t[2]) + (5 * Scale * t[1]) \div t[2]

\* a cone that narrows: uncertainty = (1 - t) * 10
uncertainty_at_narrowing(m, i) ==
    LET t == linspace01(m, i)
    IN  (10 * Scale * (t[2] - t[1])) \div t[2]

\* uncertainty[i] = t[i] * 10
uncertainty_at(m, i) ==
    LET t == linspace01(m, i)
    IN  (10 * Scale * t[1]) \div t[2]

\* the dates of a projection that starts on the last actual date
projection_dates_from_last(last_date, m) == date_range_start(last_date, m)

\* pd.date_range(start=last_date, periods=months + 1, freq='M')[1:]
projection_dates(last_date, m) ==
    SliceFrom(date_range_start(last_date, m + 1), 1)

\* the body of generate_projection for a non-empty data
projection_frame(df, m) ==
    LET last_value == df["CCI Index"][len(df)]
        last_date == df["Date"][len(df)]
        projected == [i \in 1..m |-> projected_at(last_value, m, i - 1)]
        uncertainty == [i \in 1..m |-> uncertainty_at(m, i - 1)]
    IN  [c \in ProjectionColumns |->
            CASE c = "Date" -> projection_dates(last_date, m)
              [] c = "Projected" -> projected
              [] c = "Upper" -> [i \in 1..m |-> projected[i] + uncertainty[i]]
              [] c = "Lower" -> [i \in 1..m |-> projected[i] - uncertainty[i]]]

\* a generate_projection that refuses a series of fewer than two points
generate_projection_needs_two(df, m) ==
    IF len(df) <= 1
    THEN [raised |-> "IndexError", df |-> EmptyProjection]
    ELSE [raised |-> "none", df |-> projection_frame(df, m)]

\* generate_projection(data, months): iloc[-1] of an empty column raises
\* IndexError
generate_projection(df, m) ==
    IF len(df) = 0
    THEN [raised |-> "IndexError", df |-> EmptyProjection]
    ELSE [raised |-> "none", df |-> projection_frame(df, m)]

\* list[::-1]
Reverse(s) == [i \in 1..Len(s) |-> s[Len(s) + 1 - i]]

\* one go.Scatter trace
Scatter(name, x, y) == [name |-> name, x |-> x, y |-> y]

\* create_chart(data, projection_data, show_ma): the traces of the figure,
\* for a non-empty data
create_chart(df, proj, ma) ==
    <<Scatter("CCI Index", df["Date"], df["CCI Index"])>>
    \o (IF "4-Month MA" \in ma
        THEN <<Scatter("4-Month MA", df["Date"], df["4-Month MA"])>>
        ELSE <<>>)
    \o (IF "1-Year MA" \in ma
        THEN <<Scatter("1-Year MA", df["Date"], df["1-Year MA"])>>
        ELSE <<>>)
    \o <<Scatter("Projection",
                 <<df["Date"][len(df)]>> \o proj["Date"],
                 <<df["CCI Index"][len(df)]>> \o proj["Projected"]),
         Scatter("Projection Range",
                 proj["Date"] \o Reverse(proj["Date"]),
                 proj["Upper"] \o Reverse(proj["Lower"]))>>

----------------------------------------------------------------------------
(* One run of the script body, from `filtered_data = ...` to the metrics.  *)
(* A Python exception is not caught anywhere: it ends the run, and what    *)
(* was not yet computed or published stays so.                             *)

EmptyFrame == [c \in Columns |-> <<>>]

\* f"{x:.2f}" and f"{x:.1f}": x rounded to a multiple of unit; nan and inf
\* are printed as such
Round(v, unit) == ((v + unit \div 2) \div unit) * unit

fmt(f, unit) == IF f.kind = "finite" THEN Num(Round(f.v, unit)) ELSE f

\* the run before its first statement
start_run(df, tp, ma) ==
    [raised |-> "none", failed_at |-> "none", computed |-> {},
     published |-> {}, data |-> df, time_period |-> tp, show_ma |-> ma,
     filtered_data |-> EmptyFrame, projection_data |-> EmptyProjection,
     fig |-> <<>>, metrics |-> <<>>,
     current_value |-> 0, daily_change |-> 0, daily_pct |-> NaN,
     volatility |-> NaN, proj_value |-> 0, proj_change |-> 0]

raise(v, exc, at) == [v EXCEPT !.raised = exc, !.failed_at = at]

\* filtered_data = data.tail(period_months[time_period])
run_filter(v) ==
    IF v.raised # "none" THEN v
    ELSE IF v.time_period \notin DOMAIN period_months(v.data)
    THEN raise(v, "KeyError", "filtered_data")
    ELSE [v EXCEPT
            !.filtered_data = tail(v.data, period_months(v.data)[v.time_period]),
            !.computed = @ \cup {"filtered_data"}]

\* projection_data = generate_projection(filtered_data)
run_projection(v) ==
    IF v.raised # "none" THEN v
    ELSE LET r == generate_projection(v.filtered_data, DefaultMonths)
         IN  IF r.raised # "none" THEN raise(v, r.raised, "projection_data")
             ELSE [v EXCEPT !.projection_data = r.df,
                            !.computed = @ \cup {"projection_data"}]

\* fig = create_chart(...); st.plotly_chart(fig, ...)
run_chart(v) ==
    IF v.raised # "none" THEN v
    ELSE IF len(v.filtered_data) = 0 THEN raise(v, "IndexError", "fig")
    ELSE [v EXCEPT
            !.fig = create_chart(v.filtered_data, v.projection_data, v.show_ma),
            !.computed = @ \cup {"fig"},
            !.published = @ \cup {"chart"}]

\* with col1: current value, and its delta against the previous point
run_col1(v) ==
    IF v.raised # "none" THEN v
    ELSE LET x == v.filtered_data["CCI Index"]
         IN  IF Len(x) < 1 THEN raise(v, "IndexError", "current_value")
             ELSE IF Len(x) < 2
             THEN raise([v EXCEPT !.current_value = x[Len(x)],
                                  !.computed = @ \cup {"current_value"}],
                        "IndexError", "Current Value")
             ELSE [v EXCEPT
                     !.current_value = x[Len(x)],
                     !.computed = @ \cup {"current_value"},
                     !.published = @ \cup {"Current Value"},
                     !.metrics = @ @@ ("Current Value" :>
                         [value |-> fmt(Num(x[Len(x)]), Scale \div 100),
                          delta |-> fmt(Num(x[Len(x)] - x[Len(x) - 1]),
                                        Scale \div 100)])]

\* with col2: change against the previous point, absolute and in percent
run_col2(v) ==
    IF v.raised # "none" THEN v
    ELSE LET x == v.filtered_data["CCI Index"]
         IN  IF Len(x) < 2 THEN raise(v, "IndexError", "daily_change")
             ELSE LET change == x[Len(x)] - x[Len(x) - 1]
                      pct == PercentOf(change, x[Len(x) - 1])
                  IN  [v EXCEPT
                         !.daily_change = change,
                         !.daily_pct = pct,
                         !.computed = @ \cup {"daily_change", "daily_pct"},
                         !.published = @ \cup {"Monthly Change"},
                         !.metrics = @ @@ ("Monthly Change" :>
                             [value |-> fmt(Num(change), Scale \div 100),
                              delta |-> fmt(pct, Scale \div 10)])]

\* with col3: rolling 4-point standard deviation at the last point
run_col3(v) ==
    IF v.raised # "none" THEN v
    ELSE LET x == v.filtered_data["CCI Index"]
         IN  IF Len(x) < 1 THEN raise(v, "IndexError", "volatility")
             ELSE LET vol == rolling_std_last(x, 4)
                  IN  [v EXCEPT
                         !.volatility = vol,
                         !.computed = @ \cup {"volatility"},
                         !.published = @ \cup {"4-Month Volatility"},
                         !.metrics = @ @@ ("4-Month Volatility" :>
                             [value |-> fmt(vol, Scale \div 100),
                              delta |-> NaN])]

\* with col4: final projected value and its distance from the current one
run_col4(v) ==
    IF v.raised # "none" THEN v
    ELSE LET p == v.projection_data["Projected"]
         IN  IF Len(p) = 0 THEN v
             ELSE [v EXCEPT
                     !.proj_value = p[Len(p)],
                     !.proj_change = p[Len(p)] - v.current_value,
                     !.computed = @ \cup {"proj_value", "proj_change"},
                     !.published = @ \cup {"12-Month Projection"},
                     !.metrics = @ @@ ("12-Month Projection" :>
                         [value |-> fmt(Num(p[Len(p)]), Scale \div 100),
                          delta |-> fmt(Num(p[Len(p)] - v.current_value),
                                        Scale \div 100)])]

run_script(df, tp, ma) ==
    run_col4(run_col3(run_col2(run_col1(run_chart(run_projection(
        run_filter(start_run(df, tp, ma))))))))

----------------------------------------------------------------------------
(* Spec: one dashboard session.  The state is the one after a script run;  *)
(* each widget change re-runs the script from its first line.              *)

TimePeriods == {"6 Months", "1 Year", "3 Years", "10 Years", "Max"}

MAOptions == {"4-Month MA", "1-Year MA"}

\* a full run of the file: data is generated again, then everything else
Rerun(tp, ma) ==
    LET df == generate_sample_data(rng)
    IN  /\ rng' = rng_after(rng, Periods)
        /\ time_period' = tp
        /\ show_ma' = ma
        /\ data' = df
        /\ view' = run_script(df, tp, ma)
        /\ UNCHANGED <<pc, raw, months>>

Init ==
    \E seed \in 0..MaxSeed :
        LET df == generate_sample_data(seed)
        IN  /\ rng = rng_after(seed, Periods)
            /\ time_period = "6 Months"
            /\ show_ma = {"4-Month MA"}
            /\ data = df
            /\ view = run_script(df, "6 Months", {"4-Month MA"})
            /\ pc = "session"
            /\ raw = <<>>
            /\ months = DefaultMonths

SelectTimePeriod ==
    /\ pc = "session"
    /\ \E tp \in TimePeriods \ {time_period} : Rerun(tp, show_ma)

SelectMovingAverages ==
    /\ pc = "session"
    /\ \E ma \in (SUBSET MAOptions) \ {show_ma} : Rerun(time_period, ma)

Next == SelectTimePeriod \/ SelectMovingAverages

Spec == Init /\ [][Next]_vars

----------------------------------------------------------------------------
(* FnSpec: the script's functions applied to enumerated inputs.  An input  *)
(* is a monthly series ending at LastMonth, a period label and a           *)
(* moving-average selection; the frame is built as generate_sample_data    *)
(* builds it, then either the script body runs on it or                    *)
(* generate_projection is called on it with an enumerated horizon.         *)

Values == {0, 50 * Scale, 80 * Scale}

ExampleSeries ==
    [i \in 1..12 |->
        Scale * <<100, 102, 101, 103, 105, 104, 106, 108, 107, 109, 110, 112>>[i]]

InputSeries == UNION {[1..k -> Values] : k \in 0..MaxLen} \cup {ExampleSeries}

Labels == TimePeriods \cup {"2 Years"}

FnInit ==
    /\ pc = "input"
    /\ raw \in InputSeries
    /\ time_period \in Labels
    /\ show_ma \in SUBSET MAOptions
    /\ months = DefaultMonths
    /\ rng = 0
    /\ data = EmptyFrame
    /\ view = start_run(EmptyFrame, time_period, show_ma)

\* the DataFrame construction and the two rolling means of
\* generate_sample_data, on the input values
BuildFrame ==
    /\ pc = "input"
    /\ data' = make_frame(date_range_end(LastMonth, Len(raw)), raw)
    /\ view' = start_run(data', time_period, show_ma)
    /\ pc' = "frame"
    /\ UNCHANGED <<rng, time_period, show_ma, raw, months>>

\* the script body on the frame
Compose ==
    /\ pc = "frame"
    /\ view' = run_script(data, time_period, show_ma)
    /\ pc' = "composed"
    /\ UNCHANGED <<rng, time_period, show_ma, data, raw, months>>

\* generate_projection(data, m)
Project ==
    /\ pc = "frame"
    /\ \E m \in 0..MaxMonths :
        LET r == generate_projection(data, m)
        IN  /\ months' = m
            /\ view' = [view EXCEPT
                          !.raised = r.raised,
                          !.failed_at = IF r.raised = "none" THEN "none"
                                        ELSE "projection_data",
                          !.projection_data = r.df,
                          !.computed = IF r.raised = "none"
                                       THEN {"projection_data"} ELSE {}]
    /\ pc' = "projected"
    /\ UNCHANGED <<rng, time_period, show_ma, data, raw>>

FnNext == BuildFrame \/ Compose \/ Project

FnSpec == FnInit /\ [][FnNext]_vars

----------------------------------------------------------------------------
(* Properties *)

\* number of points of a column that carry a value
DefinedCount(col) == Cardinality({i \in DOMAIN col : col[i].kind = "finite"})

\* the y values of the trace called name in the published figure
ShownTraces(name) == {i \in DOMAIN view.fig : view.fig[i].name = name}

TraceY(name) == view.fig[CHOOSE i \in ShownTraces(name) : TRUE].y

TraceX(name) == view.fig[CHOOSE i \in ShownTraces(name) : TRUE].x

WindowOf(name) == IF name = "4-Month MA" THEN 4 ELSE 12

\* C1: across the widget changes of a session the series the view is
\* computed from stays the series of the session's start: no re-run replaces
\* or changes data.
C1_CanonicalSeriesKept == [][data' = data]_vars

C3_BandOrderedAndWidening ==
    "projection_data" \in view.computed =>
        LET p == view.projection_data
        IN  \A i \in 1..Len(p["Date"]) :
                /\ p["Lower"][i] <= p["Projected"][i]
                /\ p["Projected"][i] <= p["Upper"][i]
                /\ i > 1 => p["Upper"][i - 1] - p["Lower"][i - 1]
                                <= p["Upper"][i] - p["Lower"][i]

C3_Witness ==
    /\ pc = "projected"
    /\ months >= 3
    /\ Len(view.projection_data["Date"]) = months
    /\ view.projection_data["Upper"][months]
           > view.projection_data["Lower"][months]

\* C4: with the label "Max", or a known label whose window is at least as
\* long as the series, the filter succeeds and its result is the whole input.
C4_WholeSeriesWhenWindowCovers ==
    (/\ pc = "composed"
     /\ \/ time_period = "Max"
        \/ /\ time_period \in TimePeriods
           /\ period_months(data)[time_period] >= len(data))
    => /\ view.failed_at # "filtered_data"
       /\ "filtered_data" \in view.computed
       /\ view.filtered_data = data

C4_Witness ==
    /\ pc = "composed"
    /\ time_period = "6 Months"
    /\ len(data) = 3
    /\ view.filtered_data = data
    /\ view.raised = "none"

\* C5: when the filtered series' previous value is 0 the percent change is
\* reported as Undefined, neither an infinity nor NaN, and the run goes on.
C5_PercentChangeUndefined ==
    (/\ pc = "composed"
     /\ "filtered_data" \in view.computed
     /\ len(view.filtered_data) >= 2
     /\ view.filtered_data["CCI Index"][len(view.filtered_data) - 1] = 0)
    => /\ view.raised = "none"
       /\ "Monthly Change" \in view.published
       /\ view.metrics["Monthly Change"].delta.kind = "undefined"

ViewFields ==
    {"fig", "current_value", "daily_change", "daily_pct", "volatility",
     "proj_change"}

C9_TrailingMean ==
    pc # "input" =>
        /\ \A name \in MAOptions :
              LET w == WindowOf(name)
              IN  \A i \in w..Len(raw) :
                      data[name][i] = Num(SumSeq(SubSeq(raw, i - w + 1, i)) \div w)
        /\ raw = ExampleSeries =>
              data["4-Month MA"][4] = Num(101 * Scale + Scale \div 2)

C9_Witness ==
    /\ pc = "frame"
    /\ raw = ExampleSeries
    /\ data["4-Month MA"][4] = Num(101 * Scale + Scale \div 2)
    /\ data["1-Year MA"][12].kind = "finite"

\* the projection p continues the series df: as many points as asked, dates
\* increasing and all after the last actual date, starting from its value
Continues(p, df, h) ==
    /\ \A c \in ProjectionColumns : Len(p[c]) = h
    /\ \A i \in 1..h : p["Date"][i] > df["Date"][len(df)]
    /\ \A i \in 2..h : p["Date"][i - 1] < p["Date"][i]
    /\ h >= 1 => p["Projected"][1] = df["CCI Index"][len(df)]

\* C10: a projection from a non-empty series with horizon h >= 1 has h
\* points, dated increasingly after the last actual date and anchored at the
\* last actual value; the charted projection line is the last actual point
\* followed by those points.
C10_ProjectionContinuesSeries ==
    /\ (pc = "projected" /\ len(data) >= 1)
       => /\ view.raised = "none"
          /\ Continues(view.projection_data, data, months)
    /\ (pc = "composed" /\ "filtered_data" \in view.computed
            /\ len(view.filtered_data) >= 1)
       => LET f == view.filtered_data
              p == view.projection_data
          IN  /\ "fig" \in view.computed
              /\ Continues(p, f, DefaultMonths)
              /\ TraceX("Projection") = <<f["Date"][len(f)]>> \o p["Date"]
              /\ TraceY("Projection")
                     = <<f["CCI Index"][len(f)]>> \o p["Projected"]

C10_Witness ==
    /\ pc = "composed"
    /\ "fig" \in view.computed
    /\ len(view.filtered_data) = 6
    /\ Len(TraceX("Projection")) = DefaultMonths + 1
    /\ TraceX("Projection")[2] = TraceX("Projection")[1] + 1

====
